---- MODULE Spec2Model ----
(***************************************************************************)
(* Model of the media gallery file server (src/modules): the directory     *)
(* listing handler with its path resolution and fixed-width encoder, the   *)
(* file retrieval handler, and the thumbnail cache with its identifier     *)
(* store.                                                                  *)
(*                                                                         *)
(* Strings are sequences of one-character strings; paths follow the POSIX  *)
(* flavour of os.path (separator "/").                                     *)
(***************************************************************************)
EXTENDS Integers, Sequences, FiniteSets, TLC

(***************************************************************************)
(* Characters and generic string helpers (Python str methods).             *)
(***************************************************************************)

\* Characters of the model in code-point order (str comparison in sort()).
CharOrder ==
    << " ", "%", ".", "/", "0", "1", "2", "3", "4", "5", "6", "7", "8", "9",
       "C", "J", "T", "\\", "a", "b", "c", "d", "e", "f", "g", "h", "i", "j", "k",
       "l", "m", "o", "p", "r", "s", "t", "u", "x", "|" >>

Ord(c) == CHOOSE i \in 1..Len(CharOrder) : CharOrder[i] = c

Digits == << "0", "1", "2", "3", "4", "5", "6", "7", "8", "9" >>

\* s[n:] for n >= 0
Drop(s, n) == IF n >= Len(s) THEN << >> ELSE SubSeq(s, n + 1, Len(s))

\* s[:n] for n >= 0
Take(s, n) == IF n >= Len(s) THEN s ELSE SubSeq(s, 1, n)

\* str.startswith
StartsWith(s, p) == Len(p) <= Len(s) /\ SubSeq(s, 1, Len(p)) = p

\* str.endswith
EndsWith(s, p) ==
    Len(p) <= Len(s) /\ SubSeq(s, Len(s) - Len(p) + 1, Len(s)) = p

\* str.replace(old, new): non-overlapping occurrences, left to right
RECURSIVE Replace(_, _, _)
Replace(s, old, new) ==
    IF s = << >> THEN << >>
    ELSE IF StartsWith(s, old)
         THEN new \o Replace(Drop(s, Len(old)), old, new)
         ELSE << Head(s) >> \o Replace(Tail(s), old, new)

\* str.split(sep) for a one-character separator: always at least one part
RECURSIVE SplitAcc(_, _, _)
SplitAcc(s, sep, cur) ==
    IF s = << >> THEN << cur >>
    ELSE IF Head(s) = sep
         THEN << cur >> \o SplitAcc(Tail(s), sep, << >>)
         ELSE SplitAcc(Tail(s), sep, Append(cur, Head(s)))

Split(s, sep) == SplitAcc(s, sep, << >>)

\* sep.join(parts)
RECURSIVE Join(_, _)
Join(parts, sep) ==
    IF parts = << >> THEN << >>
    ELSE IF Len(parts) = 1 THEN parts[1]
    ELSE parts[1] \o sep \o Join(Tail(parts), sep)

\* str.strip() restricted to the blank character
RECURSIVE LStrip(_)
LStrip(s) == IF s # << >> /\ Head(s) = " " THEN LStrip(Tail(s)) ELSE s

RECURSIVE RStrip(_)
RStrip(s) ==
    IF s # << >> /\ s[Len(s)] = " " THEN RStrip(SubSeq(s, 1, Len(s) - 1))
    ELSE s

Strip(s) == RStrip(LStrip(s))

\* str.lower() on the characters of the model
LowerChar(c) == IF c = "J" THEN "j" ELSE IF c = "T" THEN "t" ELSE c

Lower(s) == [i \in 1..Len(s) |-> LowerChar(s[i])]

\* str(n) for n >= 0
RECURSIVE IntToStr(_)
IntToStr(n) ==
    IF n < 10 THEN << Digits[n + 1] >>
    ELSE IntToStr(n \div 10) \o << Digits[(n % 10) + 1] >>

\* lexicographic s < t by code point (str.__lt__)
RECURSIVE StrLess(_, _)
StrLess(s, t) ==
    IF t = << >> THEN FALSE
    ELSE IF s = << >> THEN TRUE
    ELSE IF Head(s) = Head(t) THEN StrLess(Tail(s), Tail(t))
    ELSE Ord(Head(s)) < Ord(Head(t))

\* index of the last occurrence of c in s, 0 when absent (str.rfind + 1)
RECURSIVE RFind(_, _)
RFind(s, c) ==
    IF s = << >> THEN 0
    ELSE IF s[Len(s)] = c THEN Len(s)
    ELSE RFind(SubSeq(s, 1, Len(s) - 1), c)

(***************************************************************************)
(* urllib.parse quote / unquote on the characters of the model.            *)
(***************************************************************************)

\* quote(): letters, digits and "_.-~/" are kept, the rest is %XX
QuoteChar(c) ==
    IF c = " " THEN << "%", "2", "0" >>
    ELSE IF c = "%" THEN << "%", "2", "5" >>
    ELSE IF c = "|" THEN << "%", "7", "C" >>
    ELSE IF c = "\\" THEN << "%", "5", "C" >>
    ELSE << c >>

RECURSIVE quote(_)
quote(s) == IF s = << >> THEN << >> ELSE QuoteChar(Head(s)) \o quote(Tail(s))

\* unquote(): a valid %XX becomes its character, anything else is kept
RECURSIVE unquote(_)
unquote(s) ==
    IF s = << >> THEN << >>
    ELSE IF StartsWith(s, << "%", "2", "0" >>)
         THEN << " " >> \o unquote(Drop(s, 3))
    ELSE IF StartsWith(s, << "%", "2", "5" >>)
         THEN << "%" >> \o unquote(Drop(s, 3))
    ELSE << Head(s) >> \o unquote(Tail(s))

(***************************************************************************)
(* os.path (posixpath).                                                    *)
(***************************************************************************)

SLASH == << "/" >>
DOT == << "." >>
DOTDOT == << ".", "." >>

\* the component loop of posixpath.normpath
RECURSIVE NormComps(_, _, _)
NormComps(comps, initial, acc) ==
    IF comps = << >> THEN acc
    ELSE LET comp == Head(comps) IN
         IF comp = << >> \/ comp = DOT
         THEN NormComps(Tail(comps), initial, acc)
         ELSE IF comp # DOTDOT
                 \/ (initial = 0 /\ acc = << >>)
                 \/ (acc # << >> /\ acc[Len(acc)] = DOTDOT)
              THEN NormComps(Tail(comps), initial, Append(acc, comp))
              ELSE IF acc # << >>
                   THEN NormComps(Tail(comps), initial,
                                  SubSeq(acc, 1, Len(acc) - 1))
                   ELSE NormComps(Tail(comps), initial, acc)

\* posixpath.normpath
normpath(path) ==
    IF path = << >> THEN DOT
    ELSE LET initial ==
                 IF ~StartsWith(path, SLASH) THEN 0
                 ELSE IF StartsWith(path, << "/", "/" >>)
                         /\ ~StartsWith(path, << "/", "/", "/" >>)
                      THEN 2 ELSE 1
             body == Join(NormComps(Split(path, "/"), initial, << >>), SLASH)
             res == (IF initial = 2 THEN << "/", "/" >>
                     ELSE IF initial = 1 THEN SLASH ELSE << >>) \o body
         IN IF res = << >> THEN DOT ELSE res

\* posixpath.join(a, b)
pathjoin(a, b) ==
    IF StartsWith(b, SLASH) THEN b
    ELSE IF a = << >> \/ EndsWith(a, SLASH) THEN a \o b
    ELSE a \o SLASH \o b

\* posixpath.abspath for a path that join() has made absolute
abspath(path) == normpath(path)

\* posixpath.basename
basename(p) == Drop(p, RFind(p, "/"))

\* str.rstrip("/")
RECURSIVE RStripSlash(_)
RStripSlash(s) ==
    IF s # << >> /\ s[Len(s)] = "/" THEN RStripSlash(SubSeq(s, 1, Len(s) - 1))
    ELSE s

\* posixpath.dirname
dirname(p) ==
    LET head == Take(p, RFind(p, "/"))
    IN IF head # << >> /\ \E k \in 1..Len(head) : head[k] # "/"
       THEN RStripSlash(head) ELSE head

\* posixpath.splitext(p)[1]: the extension starts at the last dot of the last
\* component, unless only dots precede it there
splitext_ext(p) ==
    LET sepIndex == RFind(p, "/")
        dotIndex == RFind(p, ".")
    IN IF dotIndex > sepIndex
          /\ \E k \in (sepIndex + 1)..(dotIndex - 1) : p[k] # "."
       THEN Drop(p, dotIndex - 1) ELSE << >>

(***************************************************************************)
(* The file system under and around the media root.  A file system maps    *)
(* each directory (absolute path) to its entries in os.listdir order.      *)
(***************************************************************************)

FileEntry(name, mtime) == [name |-> name, isdir |-> FALSE, mtime |-> mtime]
DirEntry(name) == [name |-> name, isdir |-> TRUE, mtime |-> 0]

\* os.path.isdir
isdir(f, p) == p \in DOMAIN f

\* the entry a path names, if any
EntriesAt(f, p) ==
    IF dirname(p) \in DOMAIN f /\ basename(p) # << >>
    THEN { i \in 1..Len(f[dirname(p)]) : f[dirname(p)][i].name = basename(p) }
    ELSE {}

\* os.path.isfile
isfile(f, p) ==
    \E i \in EntriesAt(f, p) : ~f[dirname(p)][i].isdir

\* os.path.exists
exists(f, p) == isdir(f, p) \/ isfile(f, p)

\* os.path.getmtime of an existing path
getmtime(f, p) ==
    LET i == CHOOSE j \in EntriesAt(f, p) : TRUE IN f[dirname(p)][i].mtime

\* os.listdir
listdir(f, p) == [i \in 1..Len(f[p]) |-> f[p][i].name]

(***************************************************************************)
(* Configuration (Config.py, FileServer.__init__).                         *)
(***************************************************************************)

\* max_response_part_length: the width of one response field
W == 16

\* FileServer.media_root_dir (already absolute)
media_root_dir == << "/", "m" >>

\* FileServerAPI.public_url
public_url == << "u" >>

\* FileServer.blacklisted_subfolders
blacklisted_subfolders == { << "p" >> }

\* the two shapes of FileServer.allowed_extensions: None, or a set
AllowAll == [none |-> TRUE, exts |-> {}]
AllowList == [none |-> FALSE, exts |-> { << ".", "j" >> }]

ROOT_MARKER == << "r", "o", "o", "t", "/" >>

(***************************************************************************)
(* File systems the server may be started on.                              *)
(***************************************************************************)

N_a == << "a" >>
N_b == << "b" >>
N_m == << "m" >>
N_mx == << "m", "x" >>
N_p == << "p" >>
N_x == << "x" >>
N_h == << ".", "h" >>
N_root == << "r", "o", "o", "t" >>
N_e == << "e", " " >>
N_fj == << "f", ".", "j" >>
N_gj == << "g", ".", "j" >>
N_hj == << "h", ".", "j" >>
N_sj == << "s", ".", "j" >>
N_gt == << "g", ".", "t" >>
N_kJ == << "k", ".", "J" >>
N_cdj == << "c", " ", "d", ".", "j" >>
N_pj == << "%", "2", "0", ".", "j" >>

P_root == << "/" >>
P_m == << "/", "m" >>
P_mx == << "/", "m", "x" >>
P_ma == << "/", "m", "/", "a" >>
P_mab == << "/", "m", "/", "a", "/", "b" >>
P_mp == << "/", "m", "/", "p" >>
P_mpx == << "/", "m", "/", "p", "/", "x" >>
P_mh == << "/", "m", "/", ".", "h" >>
P_mroot == << "/", "m", "/", "r", "o", "o", "t" >>
P_mroota == << "/", "m", "/", "r", "o", "o", "t", "/", "a" >>

\* plain names only; the blacklisted directory p exists and holds files
FsA ==
    (P_root :> << DirEntry(N_m), DirEntry(N_mx) >>)
    @@ (P_m :> << DirEntry(N_a), FileEntry(N_fj, 1), DirEntry(N_p),
                  DirEntry(N_h), DirEntry(N_root) >>)
    @@ (P_ma :> << DirEntry(N_b), FileEntry(N_fj, 2), FileEntry(N_gt, 3),
                   FileEntry(N_kJ, 2), FileEntry(N_hj, 5) >>)
    @@ (P_mab :> << FileEntry(N_fj, 1) >>)
    @@ (P_mp :> << DirEntry(N_x), FileEntry(N_sj, 1) >>)
    @@ (P_mpx :> << FileEntry(N_sj, 1) >>)
    @@ (P_mh :> << FileEntry(N_fj, 1) >>)
    @@ (P_mroot :> << DirEntry(N_a) >>)
    @@ (P_mroota :> << FileEntry(N_gj, 1) >>)
    @@ (P_mx :> << FileEntry(N_sj, 1) >>)

\* a file name with a blank, a file name with a percent sign and two hex
\* digits, a directory name ending in a blank, no p
FsB ==
    (P_root :> << DirEntry(N_m), DirEntry(N_mx) >>)
    @@ (P_m :> << FileEntry(N_fj, 1), DirEntry(N_a), DirEntry(N_h),
                  DirEntry(N_root) >>)
    @@ (P_ma :> << FileEntry(N_cdj, 4), DirEntry(N_b), FileEntry(N_fj, 2) >>)
    @@ (P_mab :> << FileEntry(N_gj, 3), FileEntry(N_fj, 3) >>)
    @@ (P_mh :> << FileEntry(N_pj, 1) >>)
    @@ (P_mroot :> << DirEntry(N_a), FileEntry(N_fj, 1) >>)
    @@ (P_mroota :> << DirEntry(N_e) >>)
    @@ (P_mroota \o SLASH \o N_e :> << >>)
    @@ (P_mx :> << FileEntry(N_sj, 1) >>)

FileSystems == { FsA, FsB }

(***************************************************************************)
(* FileServer: the listing handler, step by step.                          *)
(***************************************************************************)

RECURSIVE Blanks(_)
Blanks(n) == IF n <= 0 THEN << >> ELSE << " " >> \o Blanks(n - 1)

\* format_string cutting the content at half the field: a field of W
\* characters whose content is value[:W/2]
format_string_half(value) ==
    Take(Take(value, W \div 2) \o Blanks(W), W - 1) \o << "|" >>

\* FileServer.format_string: f"{value:<{W-1}}"[:W-1] + "|"
format_string(value) ==
    Take(value \o Blanks((W - 1) - Len(value)), W - 1) \o << "|" >>

\* lines 107-109: drop the wire protocol's root marker
StripRootMarker(subfolder) ==
    IF StartsWith(subfolder, ROOT_MARKER) THEN Drop(subfolder, 4)
    ELSE subfolder

\* lines 107-125: the relative path the rest of the handler works with
NormalizeSubfolder(subfolder) ==
    LET s1 == StripRootMarker(subfolder)
        s2 == normpath(s1)
        s3 == Replace(s2, << "\\" >>, SLASH)
        s4 == Replace(s3, << "/", "/" >>, SLASH)
        s5 == IF StartsWith(s4, SLASH) THEN Drop(s4, 1) ELSE s4
    IN IF EndsWith(s5, SLASH) THEN Take(s5, Len(s5) - 1) ELSE s5

\* line 127
FullDirPath(sub) == abspath(pathjoin(media_root_dir, sub))

\* line 131: the containment test
PassesContainment(full) == StartsWith(full, media_root_dir)

\* is_blacklisted looking at the first part only
is_blacklisted_first_part(sub) ==
    Split(normpath(sub), "/")[1] \in blacklisted_subfolders

\* FileServer.is_blacklisted
is_blacklisted(sub) ==
    LET parts == Split(normpath(sub), "/")
    IN \E i \in 1..Len(parts) : parts[i] \in blacklisted_subfolders

\* lines 147 and 156: the handler's test for "the root directory"
InRootDirectory(sub) == sub \in { << >>, DOT }

\* line 146: the extension filter
ExtensionAllowed(allowed, name) ==
    allowed.none \/ Lower(splitext_ext(name)) \in allowed.exts

\* lines 147-150: the URL of one file
FileUrl(sub, base_url, name) ==
    IF InRootDirectory(sub)
    THEN base_url \o << "/", "f", "i", "l", "e", "s", "/" >> \o quote(name)
    ELSE base_url \o << "/", "f", "i", "l", "e", "s", "/" >> \o sub
         \o SLASH \o quote(name)

\* lines 141-150: the eligible files in enumeration order, as URLs
EligibleFiles(f, allowed, full, sub, base_url) ==
    LET names == listdir(f, full)
        Eligible(n) == isfile(f, pathjoin(full, n))
                       /\ ExtensionAllowed(allowed, n)
        kept == SelectSeq(names, Eligible)
    IN [i \in 1..Len(kept) |-> FileUrl(sub, base_url, kept[i])]

\* lines 153-161: the subfolder entries
Subfolders(f, full, sub) ==
    LET names == listdir(f, full)
        IsDir(n) == isdir(f, pathjoin(full, n))
    IN (IF InRootDirectory(sub) THEN << >> ELSE << DOTDOT >>)
       \o SelectSeq(names, IsDir)

\* the order of list.sort() in the handler's two uses: strings ascending
\* (files.sort()) and (file, mtime) pairs by mtime descending
GoesBefore(mode, x, y) ==
    IF mode = "name" THEN StrLess(x, y) ELSE x[2] > y[2]

\* list.sort() is stable: an element goes behind the elements it ties with
RECURSIVE InsertSorted(_, _, _)
InsertSorted(acc, x, mode) ==
    IF acc = << >> THEN << x >>
    ELSE IF GoesBefore(mode, x, Head(acc)) THEN << x >> \o acc
    ELSE << Head(acc) >> \o InsertSorted(Tail(acc), x, mode)

RECURSIVE StableSort(_, _)
StableSort(xs, mode) ==
    IF xs = << >> THEN << >>
    ELSE InsertSorted(StableSort(SubSeq(xs, 1, Len(xs) - 1), mode),
                      xs[Len(xs)], mode)

\* line 167: the path whose modification time is read for a file entry
MtimePath(full, file) == pathjoin(full, basename(file))

\* lines 164-169: the sort; date raises when a modification time is unreadable
SortRaises(f, full, files, sort_by) ==
    sort_by = "date"
    /\ \E i \in 1..Len(files) : ~exists(f, MtimePath(full, files[i]))

SortFiles(f, full, files, sort_by) ==
    IF sort_by = "name" THEN StableSort(files, "name")
    ELSE IF sort_by = "date"
    THEN LET files_with_dates ==
                 [i \in 1..Len(files) |->
                      << files[i], getmtime(f, MtimePath(full, files[i])) >>]
             sorted == StableSort(files_with_dates, "date")
         IN [i \in 1..Len(sorted) |-> sorted[i][1]]
    ELSE files

\* lines 182-191: the path field
DisplayPathField(sub) ==
    LET d1 == IF StartsWith(sub, DOT) THEN format_string(Drop(sub, 1))
              ELSE sub
        d2 == IF StartsWith(d1, SLASH) THEN format_string(Drop(d1, 1))
              ELSE d1
        d3 == IF ~StartsWith(d2, ROOT_MARKER)
              THEN format_string(ROOT_MARKER \o d2) ELSE d2
    IN format_string(d3)

RECURSIVE FormatAll(_)
FormatAll(xs) ==
    IF xs = << >> THEN << >>
    ELSE format_string(Head(xs)) \o FormatAll(Tail(xs))

\* the response string in the order of the docstring: file count first
EncodeListing_files_first(db_guid, sub, subfolders, files) ==
    Take(db_guid \o Blanks(W), W - 1) \o << "|" >>
    \o DisplayPathField(sub)
    \o Take(IntToStr(Len(files)) \o Blanks(W), W - 1) \o << "|" >>
    \o Take(IntToStr(Len(subfolders)) \o Blanks(W), W - 1) \o << "|" >>
    \o FormatAll(subfolders)
    \o FormatAll(files)

\* lines 171-204: the response string
EncodeListing(db_guid, sub, subfolders, files) ==
    format_string(db_guid)
    \o DisplayPathField(sub)
    \o format_string(IntToStr(Len(subfolders)))
    \o format_string(IntToStr(Len(files)))
    \o FormatAll(subfolders)
    \o FormatAll(files)

\* line 135: the response for a blacklisted path
BlockedResponse ==
    format_string(<< "0" >>) \o << "|" >> \o format_string(<< "0" >>)

NoListing ==
    [subfolder |-> << >>, full_dir_path |-> << >>, blocked |-> FALSE,
     subfolders |-> << >>, files |-> << >>, body |-> << >>]

\* FileServer.get_files_and_subfolders_in_subfolder: the outcome (exc) and,
\* when it returns, the string (body) with the values it was built from
get_files_and_subfolders_in_subfolder(f, allowed, db_guid, subfolder, base_url, sort_by) ==
    LET sub == NormalizeSubfolder(subfolder)
        full == FullDirPath(sub)
        found == EligibleFiles(f, allowed, full, sub, base_url)
        folders == Subfolders(f, full, sub)
        at == [NoListing EXCEPT !.subfolder = sub, !.full_dir_path = full]
    IN IF ~PassesContainment(full)
       THEN [exc |-> "ValueError", why |-> "traversal"] @@ at
       ELSE IF is_blacklisted(sub)
       THEN [exc |-> "none", why |-> "none"]
            @@ [at EXCEPT !.blocked = TRUE, !.body = BlockedResponse]
       ELSE IF ~isdir(f, full)
       THEN [exc |-> "ValueError", why |-> "notdir"] @@ at
       ELSE IF SortRaises(f, full, found, sort_by)
       THEN [exc |-> "OSError", why |-> "getmtime"] @@ at
       ELSE LET files == SortFiles(f, full, found, sort_by)
            IN [exc |-> "none", why |-> "none"]
               @@ [at EXCEPT !.subfolders = folders, !.files = files,
                             !.body = EncodeListing(db_guid, sub, folders,
                                                    files)]

(***************************************************************************)
(* FileServerAPI: the file retrieval handler.                              *)
(***************************************************************************)

\* lines 70-71 and 91-92: the absolute path a URL path names
ResolveUnder(base_path, filepath) ==
    abspath(pathjoin(base_path, unquote(filepath)))

\* lines 74 and 95: the containment test of the retrieval handlers
RetrievalContained(full_path, base_path) == StartsWith(full_path, base_path)

\* FileServerAPI.serve_static_file: the status and the file whose bytes are sent
serve_static_file(f, allowed, filepath, base_path) ==
    LET full_path == ResolveUnder(base_path, filepath)
        at == [full_path |-> full_path, sent |-> << >>]
    IN IF ~RetrievalContained(full_path, base_path)
       THEN [status |-> 403, why |-> "denied"] @@ at
       ELSE IF ~exists(f, full_path) \/ ~isfile(f, full_path)
       THEN [status |-> 404, why |-> "notfound"] @@ at
       ELSE IF ~allowed.none
               /\ Lower(splitext_ext(full_path)) \notin allowed.exts
       THEN [status |-> 403, why |-> "filetype"] @@ at
       ELSE [status |-> 200, why |-> "none"]
            @@ [at EXCEPT !.sent = full_path]

(***************************************************************************)
(* ThumbnailDatabase: the metadata table.                                  *)
(***************************************************************************)

\* values uuid.uuid4() may return for the database GUID
EpochIds == { << "g", "1" >>, << "g", "2" >> }

UNKNOWN == << "U", "N", "K", "N", "O", "W", "N" >>

\* ThumbnailDatabase._initialize_db, lines 37-44: the row is inserted only
\* when the metadata table has none; db_guid is what uuid.uuid4() returns
initialize_db(rows, db_guid) ==
    IF rows = << >> THEN << db_guid >> ELSE rows

\* ThumbnailDatabase.get_database_guid on the rows of the metadata table
get_database_guid(rows) == IF rows = << >> THEN UNKNOWN ELSE rows[1]

(***************************************************************************)
(* ThumbnailDatabase: the thumbnails table, a set of rows; FileServer: the *)
(* thumbnail files.                                                        *)
(***************************************************************************)

\* FileServer.thumbnail_dir
thumbnail_dir == << "/", "t" >>

\* None, as a lookup result or a return value
None == << >>

\* ThumbnailDatabase.get_thumbnail_guid
get_thumbnail_guid(rows, original_path) ==
    IF \E r \in rows : r.original_path = original_path
    THEN (CHOOSE r \in rows : r.original_path = original_path).thumbnail_guid
    ELSE None

\* ThumbnailDatabase.store_thumbnail_guid: INSERT OR REPLACE drops the rows
\* that clash on the primary key or on the unique GUID
store_thumbnail_guid(rows, original_path, thumbnail_guid) ==
    { r \in rows : /\ r.original_path # original_path
                   /\ r.thumbnail_guid # thumbnail_guid }
    \cup { [original_path |-> original_path,
            thumbnail_guid |-> thumbnail_guid] }

\* FileServer.get_thumbnail_path
get_thumbnail_path(guid) ==
    pathjoin(thumbnail_dir, guid \o << ".", "j", "p", "g" >>)

\* generation that never finds the file in place
ThumbnailOnDisk_never(files, thumbnail_path) == FALSE

\* line 64: the test that skips generation
ThumbnailOnDisk(files, thumbnail_path) == thumbnail_path \in files

\* str(uuid.uuid4()): the n-th value drawn
Uuid(n) == << "t" >> \o IntToStr(n)

(***************************************************************************)
(* Requests.                                                               *)
(***************************************************************************)

Concat3(a, b, c) == a \o b \o c

\* bodies of listing requests: a marker or separators, a path, a tail
ListingPrefixes ==
    { << >>, ROOT_MARKER, SLASH, << ".", "/" >>, << ".", ".", "/" >>,
      << "/", "/" >>, ROOT_MARKER \o << ".", ".", "/" >>,
      << "/", ".", ".", "/" >>, ROOT_MARKER \o SLASH }

ListingPaths ==
    { << >>, N_a, << "a", "/", "b" >>, << "a", "/", "/", "b" >>,
      << "a", "/", ".", "/", "b" >>, N_p, << "p", "/", "x" >>,
      << "a", "/", "p" >>, N_h, N_root, << "r", "o", "o", "t", "/", "a" >>,
      N_m, N_mx, << "m", "/", "a" >>, DOTDOT, N_x }

ListingSuffixes == { << >>, SLASH }

ListingInputs ==
    { Concat3(a, b, c) : a \in ListingPrefixes, b \in ListingPaths,
                         c \in ListingSuffixes }

\* request.args.get("sort_by"): "None" stands for an absent parameter
SortParams == { "None", "name", "date", "other" }

\* URL paths of file retrieval requests
FileInputs ==
    { << "f", ".", "j" >>,
      << "a", "/", "f", ".", "j" >>,
      << "a", "/", "g", ".", "t" >>,
      << "a", "/", "k", ".", "J" >>,
      << "a", "/", "c", " ", "d", ".", "j" >>,
      << "a", "/", "c", "%", "2", "0", "d", ".", "j" >>,
      << "a", "/", ".", ".", "/", "f", ".", "j" >>,
      << "p", "/", "s", ".", "j" >>,
      << "p", "/", "x", "/", "s", ".", "j" >>,
      << ".", "h", "/", "f", ".", "j" >>,
      << ".", "h", "/", "%", "2", "0", ".", "j" >>,
      << ".", ".", "/", "m", "x", "/", "s", ".", "j" >>,
      << ".", ".", "/", "m", "/", "f", ".", "j" >>,
      << ".", ".", "/", "x", "/", "s", ".", "j" >>,
      << "a" >>, << "a", "/", "x" >>, DOTDOT }

\* URL paths of thumbnail retrieval requests
ThumbInputs ==
    { << "f", ".", "j" >>,
      << "a", "/", "g", ".", "t" >>,
      << "p", "/", "s", ".", "j" >>,
      << ".", ".", "/", "m", "x", "/", "s", ".", "j" >>,
      << "a", "/", "x" >> }

\* original files generate_thumbnail is called for
GenPaths ==
    { P_m \o SLASH \o N_fj, P_ma \o SLASH \o N_gt }

\* request workers of the threaded server
NWorkers == 2

\* values uuid.uuid4() is drawn for in one run
MaxGuids == 4

Workers == 1..NWorkers

(***************************************************************************)
(* State.                                                                  *)
(***************************************************************************)

VARIABLES
    fs,         \* the file system
    allowed,    \* FileServer.allowed_extensions
    metadata,   \* rows of the metadata table (db_guid)
    dbInits,    \* the GUID the first _initialize_db drew, and how many
                \* times _initialize_db has run on this store
    req,        \* the listing or file request being served
    resp,       \* its response, once the handler has returned
    thumbnails, \* rows of the thumbnails table
    thumbFiles, \* paths of the files in the thumbnail directory
    nextGuid,   \* how many thumbnail GUIDs have been drawn, plus one
    broken,     \* original files whose image cannot be decoded
    calls,      \* per worker: the thumbnail call it runs and its locals
    firstOk     \* per original file: what the first successful
                \* generate_thumbnail call returned

listVars == << metadata, dbInits, req, resp >>
thumbVars == << thumbnails, thumbFiles, nextGuid, broken, calls, firstOk >>
vars == << fs, allowed, listVars, thumbVars >>

NoRequest == [kind |-> "none", data |-> << >>, sort_by |-> "None"]
NoResponse == [status |-> 0]

\* a worker that runs no thumbnail call
Idle ==
    [pc |-> "idle", op |-> "none", arg |-> << >>, filepath |-> << >>,
     thumbnail_guid |-> None, result |-> None, api_guid |-> None,
     status |-> 0, sent |-> << >>,
     entered |-> FALSE, returned |-> FALSE, after |-> FALSE,
     wroteStore |-> FALSE, decoded |-> FALSE, wroteFile |-> FALSE]

\* every original file a thumbnail call can name
Originals ==
    GenPaths \cup { ResolveUnder(media_root_dir, u) : u \in ThumbInputs }

ThumbInit ==
    /\ thumbnails = {}
    /\ thumbFiles = {}
    /\ nextGuid = 1
    /\ calls = [w \in Workers |-> Idle]
    /\ firstOk = [p \in Originals |-> None]

Init ==
    /\ fs \in FileSystems
    /\ allowed \in { AllowAll, AllowList }
    /\ \E g \in EpochIds :
           /\ metadata = initialize_db(<< >>, g)
           /\ dbInits = [first |-> g, count |-> 1]
    /\ req = NoRequest
    /\ resp = NoResponse
    /\ broken = {}
    /\ ThumbInit

\* a client posts a listing request
PostGetFiles(data, sort_by) ==
    /\ req.kind = "none"
    /\ req' = [kind |-> "list", data |-> data, sort_by |-> sort_by]
    /\ UNCHANGED << fs, allowed, metadata, dbInits, resp, thumbVars >>

\* FileServerAPI get_files (lines 43-66)
get_files ==
    /\ req.kind = "list" /\ resp.status = 0
    /\ LET subfolder == Strip(req.data)
           sort_by == IF req.sort_by = "None" THEN "name" ELSE req.sort_by
           result == get_files_and_subfolders_in_subfolder(
                         fs, allowed, get_database_guid(metadata), subfolder,
                         public_url, sort_by)
       IN resp' = [status |-> IF result.exc = "none" THEN 200
                              ELSE IF result.exc = "ValueError" THEN 400
                              ELSE 500,
                   listing |-> result]
    /\ UNCHANGED << fs, allowed, metadata, dbInits, req, thumbVars >>

\* a client requests a file
GetFile(filepath) ==
    /\ req.kind = "none"
    /\ req' = [kind |-> "file", data |-> filepath, sort_by |-> "None"]
    /\ UNCHANGED << fs, allowed, metadata, dbInits, resp, thumbVars >>

\* FileServerAPI serve_file (lines 22-29)
serve_file ==
    /\ req.kind = "file" /\ resp.status = 0
    /\ resp' = serve_static_file(fs, allowed, req.data, media_root_dir)
    /\ UNCHANGED << fs, allowed, metadata, dbInits, req, thumbVars >>

\* the response leaves; the worker is free again
Respond ==
    /\ resp.status # 0
    /\ req' = NoRequest
    /\ resp' = NoResponse
    /\ UNCHANGED << fs, allowed, metadata, dbInits, thumbVars >>

Next ==
    \/ \E data \in ListingInputs, sort_by \in SortParams :
           PostGetFiles(data, sort_by)
    \/ get_files
    \/ \E filepath \in FileInputs : GetFile(filepath)
    \/ serve_file
    \/ Respond

Spec == Init /\ [][Next]_vars

(***************************************************************************)
(* Restarts: the process ends and a new one constructs ThumbnailDatabase   *)
(* on the same database file.                                              *)
(***************************************************************************)

\* restarts in one run
MaxRestarts == 2

\* ThumbnailDatabase.__init__ in a new process; the request the old process
\* was serving is lost with it
Restart ==
    /\ dbInits.count <= MaxRestarts
    /\ \E g \in EpochIds : metadata' = initialize_db(metadata, g)
    /\ dbInits' = [dbInits EXCEPT !.count = @ + 1]
    /\ req' = NoRequest
    /\ resp' = NoResponse
    /\ UNCHANGED << fs, allowed, thumbVars >>

\* listing requests between restarts
NextEpoch ==
    \/ Restart
    \/ \E data \in ListingPaths, sort_by \in SortParams :
           PostGetFiles(data, sort_by)
    \/ get_files
    \/ Respond

SpecEpoch == Init /\ [][NextEpoch]_vars

(***************************************************************************)
(* Thumbnails: FileServer.generate_thumbnail and the thumbnail retrieval   *)
(* handler, one action per store or file system access, run by the         *)
(* workers of the threaded server.                                         *)
(***************************************************************************)

\* generate_thumbnail returns: to its caller's next step
Finish(w, result) ==
    LET c == calls[w]
    IN /\ calls' = [calls EXCEPT
                        ![w].result = result,
                        ![w].returned = TRUE,
                        ![w].pc = IF c.op = "generate" THEN "done"
                                  ELSE "st_reread"]
       /\ firstOk' = IF result # None /\ firstOk[c.filepath] = None
                     THEN [firstOk EXCEPT ![c.filepath] = result]
                     ELSE firstOk

\* FileServer.generate_thumbnail(filepath) is called directly
CallGenerateThumbnail(w, filepath) ==
    /\ calls[w].pc = "idle"
    /\ calls' = [calls EXCEPT ![w] =
                     [Idle EXCEPT !.pc = "gt_lookup", !.op = "generate",
                                  !.filepath = filepath, !.entered = TRUE,
                                  !.after = firstOk[filepath] # None]]
    /\ UNCHANGED << fs, allowed, listVars, thumbnails, thumbFiles, nextGuid,
                    broken, firstOk >>

\* generate_thumbnail, lines 55-57: look the GUID up
gt_lookup(w) ==
    /\ calls[w].pc = "gt_lookup"
    /\ LET guid == get_thumbnail_guid(thumbnails, calls[w].filepath)
       IN calls' = [calls EXCEPT
                        ![w].thumbnail_guid = guid,
                        ![w].pc = IF guid = None THEN "gt_store"
                                  ELSE "gt_exists"]
    /\ UNCHANGED << fs, allowed, listVars, thumbnails, thumbFiles, nextGuid,
                    broken, firstOk >>

\* generate_thumbnail, lines 58-59: draw a GUID and store it
gt_store(w) ==
    /\ calls[w].pc = "gt_store"
    /\ nextGuid <= MaxGuids
    /\ thumbnails' = store_thumbnail_guid(thumbnails, calls[w].filepath,
                                          Uuid(nextGuid))
    /\ nextGuid' = nextGuid + 1
    /\ calls' = [calls EXCEPT ![w].thumbnail_guid = Uuid(nextGuid),
                              ![w].wroteStore = TRUE,
                              ![w].pc = "gt_exists"]
    /\ UNCHANGED << fs, allowed, listVars, thumbFiles, broken, firstOk >>

\* generate_thumbnail, lines 61-65: return the file that is already there
gt_exists(w) ==
    /\ calls[w].pc = "gt_exists"
    /\ LET thumbnail_path == get_thumbnail_path(calls[w].thumbnail_guid)
       IN IF ThumbnailOnDisk(thumbFiles, thumbnail_path)
          THEN Finish(w, thumbnail_path)
          ELSE /\ calls' = [calls EXCEPT ![w].pc = "gt_generate"]
               /\ UNCHANGED firstOk
    /\ UNCHANGED << fs, allowed, listVars, thumbnails, thumbFiles, nextGuid,
                    broken >>

\* generate_thumbnail, lines 67-80: decode, resize, save; None on failure
gt_generate(w) ==
    /\ calls[w].pc = "gt_generate"
    /\ LET c == calls[w]
           thumbnail_path == get_thumbnail_path(c.thumbnail_guid)
           readable == isfile(fs, c.filepath) /\ c.filepath \notin broken
       IN /\ thumbFiles' = IF readable THEN thumbFiles \cup { thumbnail_path }
                           ELSE thumbFiles
          /\ LET result == IF readable THEN thumbnail_path ELSE None
             IN /\ calls' = [calls EXCEPT
                                 ![w].result = result,
                                 ![w].returned = TRUE,
                                 ![w].decoded = TRUE,
                                 ![w].wroteFile = readable,
                                 ![w].pc = IF c.op = "generate" THEN "done"
                                           ELSE "st_reread"]
                /\ firstOk' = IF result # None /\ firstOk[c.filepath] = None
                              THEN [firstOk EXCEPT ![c.filepath] = result]
                              ELSE firstOk
    /\ UNCHANGED << fs, allowed, listVars, thumbnails, nextGuid, broken >>

\* FileServerAPI serve_thumbnail, lines 31-38 and 91-101: resolve and check
serve_thumbnail(w, filepath) ==
    /\ calls[w].pc = "idle"
    /\ LET original_file_path == ResolveUnder(media_root_dir, filepath)
           c == [Idle EXCEPT !.op = "thumb", !.arg = filepath,
                             !.filepath = original_file_path]
       IN calls' = [calls EXCEPT ![w] =
              IF ~RetrievalContained(original_file_path, media_root_dir)
              THEN [c EXCEPT !.status = 403, !.pc = "done"]
              ELSE IF ~exists(fs, original_file_path)
                      \/ ~isfile(fs, original_file_path)
              THEN [c EXCEPT !.status = 404, !.pc = "done"]
              ELSE [c EXCEPT !.pc = "st_lookup"]]
    /\ UNCHANGED << fs, allowed, listVars, thumbnails, thumbFiles, nextGuid,
                    broken, firstOk >>

\* serve_or_generate_thumbnail, lines 104-107: look up, else generate
st_lookup(w) ==
    /\ calls[w].pc = "st_lookup"
    /\ LET guid == get_thumbnail_guid(thumbnails, calls[w].filepath)
       IN calls' = [calls EXCEPT
                        ![w].api_guid = guid,
                        ![w].entered = (guid = None),
                        ![w].after = (guid = None
                                      /\ firstOk[calls[w].filepath] # None),
                        ![w].pc = IF guid = None THEN "gt_lookup"
                                  ELSE "st_send"]
    /\ UNCHANGED << fs, allowed, listVars, thumbnails, thumbFiles, nextGuid,
                    broken, firstOk >>

\* serve_or_generate_thumbnail, line 108: read the GUID again
st_reread(w) ==
    /\ calls[w].pc = "st_reread"
    /\ calls' = [calls EXCEPT
                     ![w].api_guid =
                         get_thumbnail_guid(thumbnails, calls[w].filepath),
                     ![w].pc = "st_send"]
    /\ UNCHANGED << fs, allowed, listVars, thumbnails, thumbFiles, nextGuid,
                    broken, firstOk >>

\* serve_or_generate_thumbnail, lines 110-115: send the thumbnail file
st_send(w) ==
    /\ calls[w].pc = "st_send"
    /\ LET c == calls[w]
           thumbnail_path == get_thumbnail_path(c.api_guid)
       IN calls' = [calls EXCEPT ![w] =
              IF c.api_guid = None
              THEN [c EXCEPT !.status = 500, !.pc = "done"]
              ELSE IF thumbnail_path \in thumbFiles
              THEN [c EXCEPT !.status = 200, !.sent = thumbnail_path,
                             !.pc = "done"]
              ELSE [c EXCEPT !.status = 404, !.pc = "done"]]
    /\ UNCHANGED << fs, allowed, listVars, thumbnails, thumbFiles, nextGuid,
                    broken, firstOk >>

\* the call's result has been taken; the worker is free again
Return(w) ==
    /\ calls[w].pc = "done"
    /\ calls' = [calls EXCEPT ![w] = Idle]
    /\ UNCHANGED << fs, allowed, listVars, thumbnails, thumbFiles, nextGuid,
                    broken, firstOk >>

AllIdle == \A w \in Workers : calls[w].pc = "idle"

InitThumb ==
    /\ fs \in FileSystems
    /\ allowed \in { AllowAll, AllowList }
    /\ LET g == CHOOSE id \in EpochIds : TRUE
       IN /\ metadata = initialize_db(<< >>, g)
          /\ dbInits = [first |-> g, count |-> 1]
    /\ req = NoRequest
    /\ resp = NoResponse
    /\ broken \in SUBSET GenPaths
    /\ ThumbInit

\* URL paths of the thumbnail requests that run concurrently
ConcInputs ==
    { << "f", ".", "j" >>, << "a", "/", "g", ".", "t" >> }

InitConc ==
    /\ fs = FsA
    /\ allowed = AllowAll
    /\ LET g == CHOOSE id \in EpochIds : TRUE
       IN /\ metadata = initialize_db(<< >>, g)
          /\ dbInits = [first |-> g, count |-> 1]
    /\ req = NoRequest
    /\ resp = NoResponse
    /\ broken \in SUBSET { P_m \o SLASH \o N_fj }
    /\ ThumbInit

\* thumbnail requests of concurrent workers
NextThumb ==
    \E w \in Workers :
        \/ \E filepath \in ConcInputs : serve_thumbnail(w, filepath)
        \/ gt_lookup(w)
        \/ gt_store(w)
        \/ gt_exists(w)
        \/ gt_generate(w)
        \/ st_lookup(w)
        \/ st_reread(w)
        \/ st_send(w)
        \/ Return(w)

SpecThumb == InitConc /\ [][NextThumb]_vars

\* thumbnail calls that do not overlap: a call starts when no other runs
NextSeq ==
    \E w \in Workers :
        \/ \E filepath \in GenPaths :
               AllIdle /\ CallGenerateThumbnail(w, filepath)
        \/ \E filepath \in ThumbInputs :
               AllIdle /\ serve_thumbnail(w, filepath)
        \/ gt_lookup(w)
        \/ gt_store(w)
        \/ gt_exists(w)
        \/ gt_generate(w)
        \/ st_lookup(w)
        \/ st_reread(w)
        \/ st_send(w)
        \/ Return(w)

SpecSeq == InitThumb /\ [][NextSeq]_vars

(***************************************************************************)
(* Vocabulary of the properties.                                           *)
(***************************************************************************)

\* a listing request has been answered
ListingDone == req.kind = "list" /\ resp.status # 0

\* a file retrieval request has been answered
FileDone == req.kind = "file" /\ resp.status # 0

\* a listing request was answered with the entries of a directory
Listed == ListingDone /\ resp.status = 200 /\ ~resp.listing.blocked

\* the sort mode get_files hands to the file server
EffectiveSort == IF req.sort_by = "None" THEN "name" ELSE req.sort_by

\* the listing another request would get in this state
ListingOf(f, al, data) ==
    get_files_and_subfolders_in_subfolder(
        f, al, get_database_guid(metadata), Strip(data), public_url,
        EffectiveSort)

\* path is the media root or below it, component by component
IsUnderRoot(path) ==
    path = media_root_dir \/ StartsWith(path, media_root_dir \o SLASH)

\* some segment of a relative path is a blacklisted name
HasBlacklistedSegment(sub) ==
    \E i \in 1..Len(Split(sub, "/")) :
        Split(sub, "/")[i] \in blacklisted_subfolders

\* field i (from 0) of a response, as W characters
Field(body, i) == SubSeq(body, i * W + 1, (i + 1) * W)

\* field i as a client reads it: delimiter and trailing fill dropped
DecodeField(body, i) == RStrip(SubSeq(body, i * W + 1, (i + 1) * W - 1))

(***************************************************************************)
(* C1 Containment: a listing, file retrieval or thumbnail retrieval        *)
(* request whose joined, canonicalized absolute path is neither the media  *)
(* root nor a descendant of it (component by component) is rejected - a    *)
(* listing with the traversal error, a retrieval with access denied - and  *)
(* returns no directory entries and no file bytes.                         *)
(***************************************************************************)
C1_Containment ==
    /\ (ListingDone /\ ~IsUnderRoot(resp.listing.full_dir_path))
           => /\ resp.status = 400
              /\ resp.listing.why = "traversal"
              /\ resp.listing.body = << >>
    /\ (FileDone /\ ~IsUnderRoot(resp.full_path))
           => /\ resp.status = 403
              /\ resp.sent = << >>
    /\ \A w \in Workers :
           (/\ calls[w].op = "thumb" /\ calls[w].pc = "done"
            /\ ~IsUnderRoot(calls[w].filepath))
               => /\ calls[w].status = 403
                  /\ calls[w].sent = << >>

(***************************************************************************)
(* C2 Blacklist: a listing request that passes the containment check and   *)
(* whose normalized relative path has a segment equal to a blacklisted     *)
(* name gets a successful empty listing (no subfolder entry, no file       *)
(* entry), never an error, and the same response on every file system      *)
(* (whether or not the directory exists, whatever it holds).               *)
(***************************************************************************)
C2_Blacklist ==
    (/\ ListingDone
     /\ StartsWith(resp.listing.full_dir_path, media_root_dir)
     /\ HasBlacklistedSegment(resp.listing.subfolder))
        => /\ resp.status = 200
           /\ resp.listing.subfolders = << >>
           /\ resp.listing.files = << >>
           /\ \A f2 \in FileSystems, al2 \in { AllowAll, AllowList } :
                  /\ ListingOf(f2, al2, req.data).exc = "none"
                  /\ ListingOf(f2, al2, req.data).body = resp.listing.body

\* a blacklisted path that does not exist was answered
C2_Witness ==
    /\ ListingDone /\ resp.status = 200
    /\ HasBlacklistedSegment(resp.listing.subfolder)
    /\ ~isdir(fs, resp.listing.full_dir_path)
    /\ \E f2 \in FileSystems : isdir(f2, resp.listing.full_dir_path)

(***************************************************************************)
(* C3 Fixed-width addressability: every non-error listing response, the    *)
(* blacklist-blocked one included, is a concatenation of fields of exactly *)
(* W characters whose W-th character is the delimiter, so its length is a  *)
(* multiple of W and field i starts at offset i * W.                       *)
(***************************************************************************)
C3_FixedWidth ==
    (ListingDone /\ resp.status = 200)
        => /\ Len(resp.listing.body) % W = 0
           /\ \A i \in 1..(Len(resp.listing.body) \div W) :
                  resp.listing.body[i * W] = "|"

RECURSIVE StrToInt(_)
StrToInt(s) ==
    IF s = << >> THEN 0
    ELSE 10 * StrToInt(SubSeq(s, 1, Len(s) - 1))
         + (CHOOSE d \in 0..9 : Digits[d + 1] = s[Len(s)])

DecodedSubfolders(body) ==
    [i \in 1..StrToInt(DecodeField(body, 2)) |-> DecodeField(body, 3 + i)]

DecodedFiles(body) ==
    [i \in 1..StrToInt(DecodeField(body, 3)) |->
         DecodeField(body, 3 + StrToInt(DecodeField(body, 2)) + i)]

\* no entry of the listing exceeds W - 1 characters
AllEntriesFit(l) ==
    /\ \A i \in 1..Len(l.subfolders) : Len(l.subfolders[i]) <= W - 1
    /\ \A i \in 1..Len(l.files) : Len(l.files[i]) <= W - 1

\* no entry of the listing ends with the fill character
NoTrailingFill(l) ==
    /\ \A i \in 1..Len(l.subfolders) : ~EndsWith(l.subfolders[i], << " " >>)
    /\ \A i \in 1..Len(l.files) : ~EndsWith(l.files[i], << " " >>)

\* C5 as stated: whenever no entry exceeds W - 1 characters, decoding the
\* response recovers the subfolder and file entries, equal and in order.
C5_RoundTrip_Stated ==
    (Listed /\ AllEntriesFit(resp.listing))
        => /\ DecodedSubfolders(resp.listing.body) = resp.listing.subfolders
           /\ DecodedFiles(resp.listing.body) = resp.listing.files

\* C5 amended: whenever no entry exceeds W - 1 characters and none ends with
\* a blank (the fill character), decoding the response recovers the
\* subfolder and file entries, equal and in order.
C5_RoundTrip ==
    (Listed /\ AllEntriesFit(resp.listing) /\ NoTrailingFill(resp.listing))
        => /\ DecodedSubfolders(resp.listing.body) = resp.listing.subfolders
           /\ DecodedFiles(resp.listing.body) = resp.listing.files

\* a listing whose entries all fit, with subfolders and files, one entry
\* filling its field exactly
C5_Witness ==
    /\ Listed /\ AllEntriesFit(resp.listing) /\ NoTrailingFill(resp.listing)
    /\ Len(resp.listing.subfolders) >= 2
    /\ Len(resp.listing.files) >= 2
    /\ \E i \in 1..Len(resp.listing.files) :
           Len(resp.listing.files[i]) >= W - 3

(***************************************************************************)
(* C6 Date sort: a listing request with sort mode date on a contained,     *)
(* non-blacklisted, existing directory succeeds whatever the file names    *)
(* are, and its file entries come in non-increasing order of the           *)
(* modification time of their files, equal times in enumeration order.     *)
(***************************************************************************)

\* the position in the directory of the file an entry stands for
UnderlyingIndex(full, url) ==
    CHOOSE k \in 1..Len(fs[full]) :
        EndsWith(url, SLASH \o quote(fs[full][k].name))

C6_DateSort ==
    (/\ ListingDone
     /\ EffectiveSort = "date"
     /\ IsUnderRoot(resp.listing.full_dir_path)
     /\ ~HasBlacklistedSegment(resp.listing.subfolder)
     /\ isdir(fs, resp.listing.full_dir_path))
        => /\ resp.status = 200
           /\ LET l == resp.listing
                  at(i) == UnderlyingIndex(l.full_dir_path, l.files[i])
                  mtime(i) == fs[l.full_dir_path][at(i)].mtime
              IN \A i \in 1..(Len(l.files) - 1) :
                     \/ mtime(i) > mtime(i + 1)
                     \/ mtime(i) = mtime(i + 1) /\ at(i) < at(i + 1)

(***************************************************************************)
(* C7 Parent entry: in a non-blocked successful listing the first          *)
(* subfolder entry is ".." exactly when the resolved directory is not the  *)
(* media root; a listing of the media root, however it was reached, has    *)
(* file URLs without a subpath segment.                                    *)
(***************************************************************************)
C7_ParentEntry ==
    Listed =>
        LET l == resp.listing
        IN /\ (l.subfolders # << >> /\ l.subfolders[1] = DOTDOT)
                  <=> l.full_dir_path # media_root_dir
           /\ l.full_dir_path = media_root_dir
                  => \A i \in 1..Len(l.files) :
                         \E k \in 1..Len(fs[media_root_dir]) :
                             l.files[i]
                                 = public_url
                                   \o << "/", "f", "i", "l", "e", "s", "/" >>
                                   \o quote(fs[media_root_dir][k].name)

(***************************************************************************)
(* C8 Normalization idempotence: two listing inputs that differ only by a  *)
(* leading root/ marker, doubled separators, "." segments, a leading or a  *)
(* trailing separator resolve to the same directory and get the same       *)
(* outcome and the same response.                                          *)
(***************************************************************************)

\* the segments of an input once the marker, empty segments and "."
\* segments are dropped
SpelledSegments(data) ==
    LET rest == IF StartsWith(data, ROOT_MARKER) THEN Drop(data, 5) ELSE data
        Kept(seg) == seg # << >> /\ seg # DOT
    IN SelectSeq(Split(rest, "/"), Kept)

C8_Normalization ==
    ListingDone =>
        \A d2 \in ListingInputs :
            SpelledSegments(d2) = SpelledSegments(req.data)
                => LET r2 == ListingOf(fs, allowed, d2)
                   IN /\ r2.exc = resp.listing.exc
                      /\ r2.why = resp.listing.why
                      /\ r2.full_dir_path = resp.listing.full_dir_path
                      /\ r2.body = resp.listing.body

(***************************************************************************)
(* C9 Display-path round-trip: the display path of a listing of a          *)
(* contained, non-blacklisted, existing directory (when it fits its        *)
(* field) begins with root/ and, sent as the input of a new listing        *)
(* request, resolves to the same directory and yields the same display     *)
(* path.                                                                   *)
(***************************************************************************)

\* the path of a directory relative to the media root
RelativeToRoot(full) == Drop(full, Len(media_root_dir) + 1)

C9_DisplayRoundTrip ==
    (/\ Listed
     /\ IsUnderRoot(resp.listing.full_dir_path)
     /\ Len(ROOT_MARKER \o RelativeToRoot(resp.listing.full_dir_path))
            <= W - 1)
        => LET shown == DecodeField(resp.listing.body, 1)
               again == ListingOf(fs, allowed, shown)
           IN /\ StartsWith(shown, ROOT_MARKER)
              /\ again.exc = "none"
              /\ again.full_dir_path = resp.listing.full_dir_path
              /\ DecodeField(again.body, 1) = shown

(***************************************************************************)
(* C10 Thumbnail idempotence: in a sequence of generate_thumbnail calls    *)
(* that do not overlap, every call for a file made after the first         *)
(* successful call for it returns the path that call returned, and neither *)
(* decodes or encodes nor writes the thumbnail file or the store.          *)
(***************************************************************************)
C10_ThumbnailIdempotence ==
    \A w \in Workers :
        (calls[w].entered /\ calls[w].after)
            => /\ ~calls[w].wroteStore
               /\ ~calls[w].decoded
               /\ ~calls[w].wroteFile
               /\ calls[w].returned
                      => calls[w].result = firstOk[calls[w].filepath]

\* a call made after a successful one has returned
C10_Witness ==
    \E w \in Workers :
        /\ calls[w].entered /\ calls[w].after /\ calls[w].returned
        /\ calls[w].result # None

(***************************************************************************)
(* C11 Epoch stability: over any sequence of initializations of one store  *)
(* and any listing requests, the metadata table holds at most one epoch    *)
(* identifier, it is the one the first initialization generated, and every *)
(* listing response carries exactly that value in its first field.         *)
(***************************************************************************)
C11_EpochStability ==
    /\ Len(metadata) <= 1
    /\ metadata = << dbInits.first >>
    /\ (ListingDone /\ resp.status = 200)
           => DecodeField(resp.listing.body, 0) = dbInits.first

\* a thumbnail retrieval request has been answered
ThumbDone(w) == calls[w].op = "thumb" /\ calls[w].pc = "done"

\* the request names a regular file under the media root
NamesOriginal(w) ==
    /\ calls[w].op = "thumb"
    /\ IsUnderRoot(calls[w].filepath)
    /\ isfile(fs, calls[w].filepath)

(***************************************************************************)
(* C12 Thumbnail failure reporting: a thumbnail retrieval request for a    *)
(* contained, existing regular file whose image cannot be decoded is       *)
(* answered with a server error (500), on the first request and on every   *)
(* later one while generation keeps failing.                               *)
(***************************************************************************)
C12_FailureReporting ==
    \A w \in Workers :
        (ThumbDone(w) /\ NamesOriginal(w) /\ calls[w].filepath \in broken)
            => calls[w].status = 500

\* the allow-list is configured and leaves the file's extension out
OutsideAllowList(path) ==
    /\ ~allowed.none
    /\ Lower(splitext_ext(path)) \notin allowed.exts

(***************************************************************************)
(* C13 Allow-list on retrieval: with an extension allow-list configured, a *)
(* file retrieval or thumbnail retrieval request for an existing,          *)
(* contained file whose lowercased extension is outside the allow-list is  *)
(* answered with access denied (403), returns no bytes derived from the    *)
(* file, and creates no thumbnail record and no thumbnail file for it.     *)
(***************************************************************************)
C13_AllowListOnRetrieval ==
    /\ (/\ FileDone
        /\ IsUnderRoot(resp.full_path)
        /\ isfile(fs, resp.full_path)
        /\ OutsideAllowList(resp.full_path))
           => /\ resp.status = 403
              /\ resp.sent = << >>
    /\ \A w \in Workers :
           (NamesOriginal(w) /\ OutsideAllowList(calls[w].filepath))
               => /\ ~calls[w].wroteStore
                  /\ ~calls[w].wroteFile
                  /\ ThumbDone(w) => /\ calls[w].status = 403
                                     /\ calls[w].sent = << >>

\* the names a listing shows as files: the last segment of each URL
ListedNames(l) == { basename(l.files[i]) : i \in 1..Len(l.files) }

\* the path under the media root of the child name of directory full
PathUnderRoot(full, name) == pathjoin(RelativeToRoot(full), name)

(***************************************************************************)
(* C14 Listing/retrieval agreement: for every regular file that is a       *)
(* direct child of a contained, non-blacklisted, existing directory, the   *)
(* file is a file entry of that directory's listing if and only if a file  *)
(* retrieval request for its path under the media root is served.          *)
(***************************************************************************)
C14_ListingRetrievalAgreement ==
    (Listed /\ IsUnderRoot(resp.listing.full_dir_path))
        => LET full == resp.listing.full_dir_path
           IN \A i \in 1..Len(fs[full]) :
                  ~fs[full][i].isdir
                      => LET name == fs[full][i].name
                         IN (quote(name) \in ListedNames(resp.listing))
                                <=> serve_static_file(
                                        fs, allowed,
                                        PathUnderRoot(full, name),
                                        media_root_dir).status = 200

(***************************************************************************)
(* C15 Thumbnail record immutability under concurrency: in every           *)
(* interleaving of thumbnail requests, once the store holds an identifier  *)
(* for an original path, no step replaces or deletes it, so the path has   *)
(* at most one identifier ever and every request uses one thumbnail path.  *)
(***************************************************************************)
C15_RecordImmutable ==
    [][\A p \in Originals :
           get_thumbnail_guid(thumbnails, p) # None
               => get_thumbnail_guid(thumbnails', p)
                      = get_thumbnail_guid(thumbnails, p)]_vars

(***************************************************************************)
(* C16 Lazy generation on a missing file: a thumbnail retrieval request    *)
(* for a contained, existing original whose identifier is in the store     *)
(* while its thumbnail file is absent from disk attempts generation        *)
(* before it hands a path to the transport.                                *)
(***************************************************************************)
C16_LazyGeneration ==
    \A w \in Workers :
        (/\ NamesOriginal(w)
         /\ calls[w].pc = "st_send"
         /\ calls[w].api_guid # None
         /\ get_thumbnail_path(calls[w].api_guid) \notin thumbFiles)
            => calls[w].entered

(***************************************************************************)
(* C17 Served thumbnail exists: in every interleaving of concurrent        *)
(* thumbnail retrieval requests for a decodable, contained, existing       *)
(* original, each request that passes the checks hands the transport a     *)
(* thumbnail path whose file exists on disk at that moment.                *)
(***************************************************************************)
C17_ServedThumbnailExists ==
    \A w \in Workers :
        (/\ ThumbDone(w)
         /\ NamesOriginal(w)
         /\ calls[w].filepath \notin broken)
            => /\ calls[w].status = 200
               /\ calls[w].sent \in thumbFiles

(***************************************************************************)
(* C18 Blacklist on retrieval: no file retrieval or thumbnail retrieval    *)
(* request whose path under the media root has a segment equal to a        *)
(* blacklisted name returns the file's bytes or a thumbnail of it.         *)
(***************************************************************************)
C18_BlacklistOnRetrieval ==
    /\ (/\ FileDone
        /\ IsUnderRoot(resp.full_path)
        /\ HasBlacklistedSegment(RelativeToRoot(resp.full_path)))
           => resp.sent = << >>
    /\ \A w \in Workers :
           (/\ ThumbDone(w)
            /\ IsUnderRoot(calls[w].filepath)
            /\ HasBlacklistedSegment(RelativeToRoot(calls[w].filepath)))
               => calls[w].sent = << >>

====
